---- MODULE Spec2Model ----
(***************************************************************************)
(* Order service (services/order/app/main.py): the in-memory order store   *)
(* (the list `orders` and the counter `next_order_id`) and the Flask views *)
(* that read and mutate it.                                                *)
(*                                                                         *)
(* Four specifications share the store and the helpers below:              *)
(*   Spec          one request at a time; every action is a whole view     *)
(*                 function, from routing to the response;                 *)
(*   SpecThreaded  the threaded development server (app.run, threaded by   *)
(*                 default): each worker thread runs a view as a sequence  *)
(*                 of steps, one per access to the shared store, and the   *)
(*                 steps of different threads interleave.                  *)
(*   SpecObserved  one request at a time with the hooks before_request and *)
(*                 after_request around the view, the Prometheus counter   *)
(*                 and histogram, the log, and the views health, ready,    *)
(*                 metrics and root;                                       *)
(*   SpecThreadedObserved  the threaded server with the hooks and a clock. *)
(* Spec and SpecThreaded follow the views alone and leave the aggregates   *)
(* of the hooks untouched.                                                 *)
(*                                                                         *)
(* Representation.  A status or a filter is a Python str on which the code *)
(* calls lower(); it is modelled as the sequence of its characters.  The   *)
(* other strings are never taken apart and are TLA+ strings.  Amounts      *)
(* (`total`) are integers in cents; the code does no arithmetic on them.   *)
(* A JSON body is [json |-> "null"] or [json |-> "object", members |-> f]  *)
(* with f a function from the keys present to their values.                *)
(***************************************************************************)
EXTENDS Integers, Sequences, FiniteSets, TLC

-----------------------------------------------------------------------------
(* str.lower() on the ASCII letters, character by character *)

UpperChars == <<"A","B","C","D","E","F","G","H","I","J","K","L","M",
                "N","O","P","Q","R","S","T","U","V","W","X","Y","Z">>

LowerChars == <<"a","b","c","d","e","f","g","h","i","j","k","l","m",
                "n","o","p","q","r","s","t","u","v","w","x","y","z">>

ToLower ==
    [c \in {UpperChars[k] : k \in DOMAIN UpperChars} |->
        LowerChars[CHOOSE k \in DOMAIN UpperChars : UpperChars[k] = c]]

LowerChar(c) == IF c \in DOMAIN ToLower THEN ToLower[c] ELSE c

Lower(s) == [k \in DOMAIN s |-> LowerChar(s[k])]

-----------------------------------------------------------------------------
(* The status strings of the source *)

pending    == <<"p","e","n","d","i","n","g">>
processing == <<"p","r","o","c","e","s","s","i","n","g">>
shipped    == <<"s","h","i","p","p","e","d">>
delivered  == <<"d","e","l","i","v","e","r","e","d">>
cancelled  == <<"c","a","n","c","e","l","l","e","d">>

valid_statuses == <<pending, processing, shipped, delivered, cancelled>>

(* a membership test that ignores the case of the letters *)
InListIgnoreCase(x, list) == \E k \in DOMAIN list : Lower(list[k]) = Lower(x)

(* Python's `x in list` *)
InList(x, list) == \E k \in DOMAIN list : list[k] = x

-----------------------------------------------------------------------------
(* The store at import time *)

SeedOrders ==
    << [id |-> 1, product_id |-> 1, product_name |-> "Laptop Pro",
        quantity |-> 1, status |-> delivered, total |-> 129999,
        created_at |-> "2024-01-01T10:00:00Z"],
       [id |-> 2, product_id |-> 2, product_name |-> "Wireless Headphones",
        quantity |-> 2, status |-> shipped, total |-> 39998,
        created_at |-> "2024-01-02T14:30:00Z"],
       [id |-> 3, product_id |-> 3, product_name |-> "Coffee Maker Deluxe",
        quantity |-> 1, status |-> pending, total |-> 8999,
        created_at |-> "2024-01-03T09:15:00Z"],
       [id |-> 4, product_id |-> 4, product_name |-> "Smart Watch",
        quantity |-> 1, status |-> processing, total |-> 34999,
        created_at |-> "2024-01-04T11:45:00Z"] >>

FirstOrderId == 5

-----------------------------------------------------------------------------
(* Bounds and the inputs the requests are drawn from *)

MaxCreates == 2

(* characters spelled differently from the enumeration *)
Shipped   == <<"S","h","i","p","p","e","d">>
SHIPPED   == <<"S","H","I","P","P","E","D">>
Pending   == <<"P","e","n","d","i","n","g">>
flying    == <<"f","l","y","i","n","g">>
EmptyStr  == << >>

StatusValues == { valid_statuses[k] : k \in DOMAIN valid_statuses }

BadStatusValues == { Shipped, flying, EmptyStr }

FilterValues == { shipped, SHIPPED, Pending, flying, EmptyStr }

(* request.args: the query parameters present *)
QueryArgs == { << >> } \cup { [status |-> f] : f \in FilterValues }

JsonNull == [json |-> "null"]

JsonObject(f) == [json |-> "object", members |-> f]

CreateBodies ==
    { JsonNull,
      JsonObject(<< >>),
      JsonObject([product_name |-> "Mug"]),
      JsonObject([product_id |-> 7]),
      JsonObject([product_id |-> 7, status |-> shipped]),
      JsonObject([product_id |-> 7, status |-> flying]),
      JsonObject([product_id |-> 8, product_name |-> "Mug",
                  quantity |-> 2, total |-> 1500]) }

StatusBodies ==
    { JsonNull, JsonObject(<< >>) }
    \cup { JsonObject([status |-> s]) : s \in StatusValues \cup BadStatusValues }

(* ids the requests name: a seeded order, the first created order, and an  *)
(* id that never exists *)
RequestIds == { 2, FirstOrderId, 9999 }

(* the readings of datetime.now().isoformat() *)
Timestamps == { "2024-02-01T08:00:00.000001", "2024-02-01T08:00:00.000002" }

Threads == { 1, 2 }

-----------------------------------------------------------------------------
VARIABLES
    orders,          \* the list `orders`
    next_order_id,   \* the global `next_order_id`
    request,         \* the request most recently answered
    response,        \* the response to it: [code, body]
    pc,              \* SpecThreaded: where each worker thread is in its view
    frame,           \* SpecThreaded: each thread's request and local variables
    REQUEST_COUNT,   \* the counter http_requests_total: value per label triple
    REQUEST_LATENCY, \* the histogram: count and sum per label pair
    log,             \* the records written by after_request, oldest first
    now,             \* the clock that datetime.now() reads in the hooks
    start_time       \* request.start_time of the request each thread serves

storeVars  == <<orders, next_order_id>>
threadVars == <<pc, frame>>
obsVars    == <<REQUEST_COUNT, REQUEST_LATENCY, log, now, start_time>>
vars       == <<orders, next_order_id, request, response, pc, frame,
               REQUEST_COUNT, REQUEST_LATENCY, log, now, start_time>>

NoRequest  == [rule |-> "none"]
NoResponse == [code |-> 0]
IdleFrame  == [rule |-> "none"]
NoStartTime == -1

Init ==
    /\ orders = SeedOrders
    /\ next_order_id = FirstOrderId
    /\ request = NoRequest
    /\ response = NoResponse
    /\ pc = [t \in Threads |-> "idle"]
    /\ frame = [t \in Threads |-> IdleFrame]
    /\ REQUEST_COUNT = << >>
    /\ REQUEST_LATENCY = << >>
    /\ log = << >>
    /\ now = 0
    /\ start_time = [t \in Threads |-> NoStartTime]

-----------------------------------------------------------------------------
(* Helpers of the views *)

(* a lookup that stops one element short of the end of the list *)
FindOrderSkipLast(ords, order_id) ==
    IF \E k \in 1..(Len(ords) - 1) : ords[k].id = order_id
    THEN CHOOSE k \in 1..(Len(ords) - 1) :
            /\ ords[k].id = order_id
            /\ \A j \in 1..(k - 1) : ords[j].id # order_id
    ELSE 0

(* next((o for o in orders if o['id'] == order_id), None): the position of *)
(* the first order with that id, 0 for None.  The position stands for the  *)
(* reference to the dict held in the list: orders are never removed or     *)
(* reordered.                                                              *)
FindOrder(ords, order_id) ==
    IF \E k \in DOMAIN ords : ords[k].id = order_id
    THEN CHOOSE k \in DOMAIN ords :
            /\ ords[k].id = order_id
            /\ \A j \in 1..(k - 1) : ords[j].id # order_id
    ELSE 0

(* a lookup that always answers the default *)
DictGetDefault(f, key, default) == default

(* dict.get(key, default) on the members of a JSON object *)
DictGet(f, key, default) == IF key \in DOMAIN f THEN f[key] ELSE default

(* `not data` for the result of request.get_json() *)
Falsy(data) == data.json = "null" \/ DOMAIN data.members = {}

(* a create that takes the status from the payload when it has one *)
NewOrderKeepsStatus(id, data, ts) ==
    [id           |-> id,
     product_id   |-> data.members["product_id"],
     product_name |-> DictGet(data.members, "product_name", "Unknown"),
     quantity     |-> DictGet(data.members, "quantity", 1),
     status       |-> DictGet(data.members, "status", pending),
     total        |-> DictGet(data.members, "total", 0),
     created_at   |-> ts]

(* the dict built by create_order *)
NewOrder(id, data, ts) ==
    [id           |-> id,
     product_id   |-> data.members["product_id"],
     product_name |-> DictGet(data.members, "product_name", "Unknown"),
     quantity     |-> DictGet(data.members, "quantity", 1),
     status       |-> pending,
     total        |-> DictGet(data.members, "total", 0),
     created_at   |-> ts]

(* a counter that is never advanced *)
IncrementStuck(n) == n

(* next_order_id += 1 *)
Increment(n) == n + 1

(* an overwrite that treats delivered and cancelled as final *)
SetStatusForwardOnly(ords, k, s) ==
    IF ords[k].status \in {delivered, cancelled}
    THEN ords
    ELSE [ords EXCEPT ![k].status = s]

(* an overwrite applied to every order of the list *)
SetStatusAll(ords, k, s) == [j \in DOMAIN ords |-> [ords[j] EXCEPT !.status = s]]

(* order['status'] = data['status'] on the dict at position k *)
SetStatus(ords, k, s) == [ords EXCEPT ![k].status = s]

(* `if status_filter:` on request.args.get('status') *)
HasFilter(args) == "status" \in DOMAIN args /\ Len(args["status"]) > 0

(* the list comprehension of get_orders, as positions in `orders` *)
RECURSIVE FilterFrom(_, _, _)
FilterFrom(ords, f, k) ==
    IF k > Len(ords) THEN << >>
    ELSE IF Lower(ords[k].status) = Lower(f)
         THEN <<k>> \o FilterFrom(ords, f, k + 1)
         ELSE FilterFrom(ords, f, k + 1)

SelectOrders(ords, args) ==
    IF HasFilter(args)
    THEN FilterFrom(ords, args["status"], 1)
    ELSE [k \in 1..Len(ords) |-> k]

(* jsonify: the response carries the contents the dicts have when it is built *)
Jsonify(code, body) == [code |-> code, body |-> body]

OrderList(ords, sel) == [k \in 1..Len(sel) |-> ords[sel[k]]]

NotFoundResponse == Jsonify(404, [error |-> "Order not found"])

ProductIdRequired == Jsonify(400, [error |-> "product_id is required"])

StatusRequired == Jsonify(400, [error |-> "status is required"])

InvalidStatus ==
    Jsonify(400, [error |-> "Invalid status. Must be one of: ['pending', 'processing', 'shipped', 'delivered', 'cancelled']"])

(* `'status' not in data` with data = None raises TypeError; Flask answers 500 *)
InternalServerError == Jsonify(500, [error |-> "Internal Server Error"])

Accepted == [code |-> 200]

(* payload checks without the membership test *)
PayloadCheckNoEnum(data) ==
    IF data.json = "null" THEN InternalServerError
    ELSE IF "status" \notin DOMAIN data.members THEN StatusRequired
    ELSE Accepted

(* update_order_status, lines 120-126: the checks on the payload, in the   *)
(* order of the code                                                       *)
PayloadCheck(data) ==
    IF data.json = "null" THEN InternalServerError
    ELSE IF "status" \notin DOMAIN data.members THEN StatusRequired
    ELSE IF ~InList(data.members["status"], valid_statuses) THEN InvalidStatus
    ELSE Accepted

(* update_order_status with the payload checked before the lookup *)
UpdateStatusResultValidateFirst(ords, order_id, data) ==
    LET order == FindOrder(ords, order_id)
    IN  IF PayloadCheck(data) # Accepted
        THEN [orders |-> ords, response |-> PayloadCheck(data)]
        ELSE IF order = 0
        THEN [orders |-> ords, response |-> NotFoundResponse]
        ELSE LET updated == SetStatus(ords, order, data.members["status"])
             IN  [orders |-> updated, response |-> Jsonify(200, updated[order])]

(* update_order_status as a function of the store: the list afterwards and *)
(* the response                                                            *)
UpdateStatusResult(ords, order_id, data) ==
    LET order == FindOrder(ords, order_id)
    IN  IF order = 0
        THEN [orders |-> ords, response |-> NotFoundResponse]
        ELSE IF PayloadCheck(data) # Accepted
        THEN [orders |-> ords, response |-> PayloadCheck(data)]
        ELSE LET updated == SetStatus(ords, order, data.members["status"])
             IN  [orders |-> updated, response |-> Jsonify(200, updated[order])]

(* a create that advances the counter also when it rejects the payload *)
CreateResultConsumesId(ords, next_id, data, ts) ==
    IF Falsy(data) \/ "product_id" \notin DOMAIN data.members
    THEN [orders |-> ords, next_order_id |-> Increment(next_id),
          response |-> ProductIdRequired]
    ELSE LET new_order == NewOrder(next_id, data, ts)
         IN  [orders |-> Append(ords, new_order),
              next_order_id |-> Increment(next_id),
              response |-> Jsonify(201, new_order)]

(* create_order as a function of the store: the list and the counter       *)
(* afterwards and the response                                             *)
CreateResult(ords, next_id, data, ts) ==
    IF Falsy(data) \/ "product_id" \notin DOMAIN data.members
    THEN [orders |-> ords, next_order_id |-> next_id,
          response |-> ProductIdRequired]
    ELSE LET new_order == NewOrder(next_id, data, ts)
         IN  [orders |-> Append(ords, new_order),
              next_order_id |-> Increment(next_id),
              response |-> Jsonify(201, new_order)]

(* a listing that filters the list `orders` itself *)
GetOrdersResultInPlace(ords, args) ==
    LET result == OrderList(ords, SelectOrders(ords, args))
    IN  [orders |-> result,
         response |-> Jsonify(200, [orders |-> result, count |-> Len(result)])]

(* get_orders as a function of the store *)
GetOrdersResult(ords, args) ==
    LET result == OrderList(ords, SelectOrders(ords, args))
    IN  [orders |-> ords,
         response |-> Jsonify(200, [orders |-> result, count |-> Len(result)])]

(* get_order as a function of the store *)
GetOrderResult(ords, order_id) ==
    LET order == FindOrder(ords, order_id)
    IN  [orders |-> ords,
         response |-> IF order = 0 THEN NotFoundResponse
                      ELSE Jsonify(200, ords[order])]

-----------------------------------------------------------------------------
(* Spec: the views, one request at a time *)

GetOrdersRequest(args) == [rule |-> "GET /orders", args |-> args]

GetOrderRequest(order_id) ==
    [rule |-> "GET /orders/<int:order_id>", order_id |-> order_id]

CreateOrderRequest(data) == [rule |-> "POST /orders", json |-> data]

UpdateStatusRequest(order_id, data) ==
    [rule |-> "PATCH /orders/<int:order_id>/status",
     order_id |-> order_id, json |-> data]

get_orders(args) ==
    LET result == GetOrdersResult(orders, args)
    IN  /\ request' = GetOrdersRequest(args)
        /\ orders' = result.orders
        /\ response' = result.response
        /\ UNCHANGED <<next_order_id, threadVars>>

get_order(order_id) ==
    LET result == GetOrderResult(orders, order_id)
    IN  /\ request' = GetOrderRequest(order_id)
        /\ orders' = result.orders
        /\ response' = result.response
        /\ UNCHANGED <<next_order_id, threadVars>>

create_order(data, ts) ==
    LET result == CreateResult(orders, next_order_id, data, ts)
    IN  /\ result.response.code = 201 => Len(orders) < Len(SeedOrders) + MaxCreates
        /\ request' = CreateOrderRequest(data)
        /\ orders' = result.orders
        /\ next_order_id' = result.next_order_id
        /\ response' = result.response
        /\ UNCHANGED threadVars

update_order_status(order_id, data) ==
    LET result == UpdateStatusResult(orders, order_id, data)
    IN  /\ request' = UpdateStatusRequest(order_id, data)
        /\ orders' = result.orders
        /\ response' = result.response
        /\ UNCHANGED <<next_order_id, threadVars>>

(* Spec and SpecThreaded follow the views alone: the hooks before_request  *)
(* and after_request read and write neither the store nor the response,    *)
(* and the aggregates they keep are left out of these two specifications.  *)
(* SpecObserved and SpecThreadedObserved add the hooks.                    *)
Unobserved == UNCHANGED obsVars

GetOrders == \E args \in QueryArgs : get_orders(args) /\ Unobserved

GetOrder == \E order_id \in RequestIds : get_order(order_id) /\ Unobserved

CreateOrder ==
    \E data \in CreateBodies, ts \in Timestamps : create_order(data, ts) /\ Unobserved

UpdateOrderStatus ==
    \E order_id \in RequestIds, data \in StatusBodies :
        update_order_status(order_id, data) /\ Unobserved

Next ==
    \/ GetOrders
    \/ GetOrder
    \/ CreateOrder
    \/ UpdateOrderStatus

Spec == Init /\ [][Next]_vars

-----------------------------------------------------------------------------
(* SpecThreaded: the same views run by worker threads.  A step is one       *)
(* access to the shared store together with the thread-local work around    *)
(* it; the interpreter may switch threads between any two steps.            *)

ThreadedRequests ==
    { CreateOrderRequest(JsonObject([product_id |-> 7])),
      CreateOrderRequest(JsonObject(<< >>)),
      CreateOrderRequest(JsonObject([product_id |-> 7, status |-> flying])),
      UpdateStatusRequest(FirstOrderId, JsonObject([status |-> shipped])),
      UpdateStatusRequest(FirstOrderId, JsonObject([status |-> cancelled])),
      UpdateStatusRequest(FirstOrderId, JsonObject([status |-> flying])),
      UpdateStatusRequest(FirstOrderId, JsonObject([status |-> Shipped])),
      UpdateStatusRequest(FirstOrderId, JsonNull),
      UpdateStatusRequest(9999, JsonObject([status |-> shipped])),
      GetOrderRequest(FirstOrderId),
      GetOrdersRequest(<< >>),
      GetOrdersRequest([status |-> SHIPPED]) }

ThreadedTimestamps == { "2024-02-01T08:00:00.000001" }

ViewEntry(rule) ==
    CASE rule = "GET /orders" -> "get_orders"
      [] rule = "GET /orders/<int:order_id>" -> "get_order"
      [] rule = "POST /orders" -> "create_order"
      [] rule = "PATCH /orders/<int:order_id>/status" -> "update_order_status"

(* creates admitted so far: orders appended and creates yet to append *)
CreatesAdmitted ==
    Len(orders) - Len(SeedOrders)
        + Cardinality({ u \in Threads : pc[u] \in {"create_order", "create_append"} })

(* the thread returns its response and becomes idle *)
Respond(t, resp) ==
    /\ request' = frame[t].request
    /\ response' = resp
    /\ pc' = [pc EXCEPT ![t] = "idle"]
    /\ frame' = [frame EXCEPT ![t] = IdleFrame]

Goto(t, label, fr) ==
    /\ pc' = [pc EXCEPT ![t] = label]
    /\ frame' = [frame EXCEPT ![t] = fr]
    /\ UNCHANGED <<request, response>>

(* a request arrives and is routed to its view *)
Dispatch(t) ==
    /\ pc[t] = "idle"
    /\ \E r \in ThreadedRequests :
          /\ r.rule = "POST /orders" => CreatesAdmitted < MaxCreates
          /\ Goto(t, ViewEntry(r.rule), [request |-> r])
    /\ UNCHANGED storeVars

(* get_orders, lines 76-79 *)
GetOrdersStart(t) ==
    /\ pc[t] = "get_orders"
    /\ LET req == frame[t].request
       IN  IF HasFilter(req.args)
           THEN Goto(t, "get_orders_iter", [request |-> req, k |-> 1, sel |-> << >>])
           ELSE Goto(t, "get_orders_len", [request |-> req, whole |-> TRUE])
    /\ UNCHANGED storeVars

(* one turn of the list comprehension, line 80 *)
GetOrdersIter(t) ==
    /\ pc[t] = "get_orders_iter"
    /\ LET fr == frame[t]
           f  == fr.request.args["status"]
       IN  IF fr.k > Len(orders)
           THEN Goto(t, "get_orders_len",
                     [request |-> fr.request, whole |-> FALSE, sel |-> fr.sel])
           ELSE Goto(t, "get_orders_iter",
                     [fr EXCEPT !.k = fr.k + 1,
                                !.sel = IF Lower(orders[fr.k].status) = Lower(f)
                                        THEN Append(fr.sel, fr.k) ELSE fr.sel])
    /\ UNCHANGED storeVars

(* len(result), line 82; `result` is the list `orders` itself when unfiltered *)
GetOrdersLen(t) ==
    /\ pc[t] = "get_orders_len"
    /\ LET fr == frame[t]
       IN  Goto(t, "get_orders_return",
                fr @@ [count |-> IF fr.whole THEN Len(orders) ELSE Len(fr.sel)])
    /\ UNCHANGED storeVars

(* jsonify serialises the dicts as they are now, line 82 *)
GetOrdersReturn(t) ==
    /\ pc[t] = "get_orders_return"
    /\ LET fr == frame[t]
           sel == IF fr.whole THEN [k \in 1..Len(orders) |-> k] ELSE fr.sel
       IN  Respond(t, Jsonify(200, [orders |-> OrderList(orders, sel),
                                    count |-> fr.count]))
    /\ UNCHANGED storeVars

(* get_order, lines 86-88 *)
GetOrderFind(t) ==
    /\ pc[t] = "get_order"
    /\ LET req == frame[t].request
           order == FindOrder(orders, req.order_id)
       IN  IF order = 0
           THEN Respond(t, NotFoundResponse)
           ELSE Goto(t, "get_order_return", [request |-> req, order |-> order])
    /\ UNCHANGED storeVars

(* line 89 *)
GetOrderReturn(t) ==
    /\ pc[t] = "get_order_return"
    /\ Respond(t, Jsonify(200, orders[frame[t].order]))
    /\ UNCHANGED storeVars

(* create_order, lines 95-107: validation, then the dict with the id read  *)
(* from next_order_id                                                      *)
CreateOrderBuild(t) ==
    /\ pc[t] = "create_order"
    /\ LET req == frame[t].request
           data == req.json
       IN  IF Falsy(data) \/ "product_id" \notin DOMAIN data.members
           THEN Respond(t, ProductIdRequired)
           ELSE \E ts \in ThreadedTimestamps :
                   Goto(t, "create_append",
                        [request |-> req,
                         new_order |-> NewOrder(next_order_id, data, ts)])
    /\ UNCHANGED storeVars

(* line 109 *)
CreateOrderAppend(t) ==
    /\ pc[t] = "create_append"
    /\ orders' = Append(orders, frame[t].new_order)
    /\ UNCHANGED next_order_id
    /\ Goto(t, "create_load", [request |-> frame[t].request, order |-> Len(orders) + 1])

(* line 110, next_order_id += 1: the load of the global *)
CreateOrderLoad(t) ==
    /\ pc[t] = "create_load"
    /\ Goto(t, "create_store", frame[t] @@ [loaded |-> next_order_id])
    /\ UNCHANGED storeVars

(* line 110: the store of the sum *)
CreateOrderStore(t) ==
    /\ pc[t] = "create_store"
    /\ next_order_id' = Increment(frame[t].loaded)
    /\ UNCHANGED orders
    /\ Goto(t, "create_return", [request |-> frame[t].request, order |-> frame[t].order])

(* line 112 *)
CreateOrderReturn(t) ==
    /\ pc[t] = "create_return"
    /\ Respond(t, Jsonify(201, orders[frame[t].order]))
    /\ UNCHANGED storeVars

(* update_order_status, lines 116-126: the lookup and the validation *)
UpdateStatusFind(t) ==
    /\ pc[t] = "update_order_status"
    /\ LET req == frame[t].request
           data == req.json
           order == FindOrder(orders, req.order_id)
       IN  IF order = 0 THEN Respond(t, NotFoundResponse)
           ELSE IF PayloadCheck(data) # Accepted THEN Respond(t, PayloadCheck(data))
           ELSE Goto(t, "update_store", [request |-> req, order |-> order])
    /\ UNCHANGED storeVars

(* line 128 *)
UpdateStatusStore(t) ==
    /\ pc[t] = "update_store"
    /\ orders' = SetStatus(orders, frame[t].order,
                           frame[t].request.json.members["status"])
    /\ UNCHANGED next_order_id
    /\ Goto(t, "update_return", frame[t])

(* line 129 *)
UpdateStatusReturn(t) ==
    /\ pc[t] = "update_return"
    /\ Respond(t, Jsonify(200, orders[frame[t].order]))
    /\ UNCHANGED storeVars

ThreadedNext ==
    \E t \in Threads :
        \/ Dispatch(t) /\ Unobserved
        \/ GetOrdersStart(t) /\ Unobserved
        \/ GetOrdersIter(t) /\ Unobserved
        \/ GetOrdersLen(t) /\ Unobserved
        \/ GetOrdersReturn(t) /\ Unobserved
        \/ GetOrderFind(t) /\ Unobserved
        \/ GetOrderReturn(t) /\ Unobserved
        \/ CreateOrderBuild(t) /\ Unobserved
        \/ CreateOrderAppend(t) /\ Unobserved
        \/ CreateOrderLoad(t) /\ Unobserved
        \/ CreateOrderStore(t) /\ Unobserved
        \/ CreateOrderReturn(t) /\ Unobserved
        \/ UpdateStatusFind(t) /\ Unobserved
        \/ UpdateStatusStore(t) /\ Unobserved
        \/ UpdateStatusReturn(t) /\ Unobserved

SpecThreaded == Init /\ [][ThreadedNext]_vars

-----------------------------------------------------------------------------
(* The hooks before_request and after_request, the aggregates they keep,   *)
(* and the views health, ready, metrics and root                           *)

MaxRequests == 3

MaxClock == 1

HealthRequest == [rule |-> "GET /health"]

ReadyRequest == [rule |-> "GET /ready"]

MetricsRequest == [rule |-> "GET /metrics"]

RootRequest == [rule |-> "GET /"]

(* request.method *)
Method(req) ==
    CASE req.rule = "POST /orders" -> "POST"
      [] req.rule = "PATCH /orders/<int:order_id>/status" -> "PATCH"
      [] OTHER -> "GET"

(* request.path: the segments of the URL, without the query string *)
Path(req) ==
    CASE req.rule = "GET /orders" -> <<"/orders">>
      [] req.rule = "POST /orders" -> <<"/orders">>
      [] req.rule = "GET /orders/<int:order_id>" -> <<"/orders/", req.order_id>>
      [] req.rule = "PATCH /orders/<int:order_id>/status" ->
            <<"/orders/", req.order_id, "/status">>
      [] req.rule = "GET /health" -> <<"/health">>
      [] req.rule = "GET /ready" -> <<"/ready">>
      [] req.rule = "GET /metrics" -> <<"/metrics">>
      [] req.rule = "GET /" -> <<"/">>

(* the value of a counter child; a child exists once its labels were used *)
CounterValue(counter, labels) ==
    IF labels \in DOMAIN counter THEN counter[labels] ELSE 0

(* an increment that forgets what the child had counted *)
IncResets(counter, labels) ==
    [l \in DOMAIN counter \cup {labels} |-> IF l = labels THEN 1 ELSE counter[l]]

(* REQUEST_COUNT.labels(...).inc(), line 52 *)
Inc(counter, labels) ==
    [l \in DOMAIN counter \cup {labels} |->
        IF l = labels THEN CounterValue(counter, l) + 1 ELSE counter[l]]

NoSamples == [count |-> 0, sum |-> 0]

HistogramValue(hist, labels) ==
    IF labels \in DOMAIN hist THEN hist[labels] ELSE NoSamples

(* REQUEST_LATENCY.labels(...).observe(latency), line 50: the count and the *)
(* sum of the child; the buckets are not modelled                          *)
Observe(hist, labels, v) ==
    [l \in DOMAIN hist \cup {labels} |->
        IF l = labels
        THEN [count |-> HistogramValue(hist, l).count + 1,
              sum   |-> HistogramValue(hist, l).sum + v]
        ELSE hist[l]]

(* (datetime.now() - request.start_time).total_seconds(), line 49 *)
Latency(start, end) == end - start

(* the record of lines 54-58 *)
LogRecord(req, resp) ==
    [method |-> Method(req), path |-> Path(req), status |-> resp.code]

(* a hook that answers 200 whatever the view returned *)
AfterRequestReturnOk(resp) == [resp EXCEPT !.code = 200]

(* `return response`, line 60 *)
AfterRequestReturn(resp) == resp

(* generate_latest(): one sample per child of the counter and two per      *)
(* child of the histogram                                                  *)
generate_latest(counter, hist) ==
    { <<"http_requests_total", l, counter[l]>> : l \in DOMAIN counter }
    \cup { <<"http_request_duration_seconds_count", l, hist[l].count>> :
             l \in DOMAIN hist }
    \cup { <<"http_request_duration_seconds_sum", l, hist[l].sum>> :
             l \in DOMAIN hist }

HealthResponse(ts) ==
    Jsonify(200, [status |-> "healthy", service |-> "order-service", timestamp |-> ts])

ReadyResponse == Jsonify(200, [status |-> "ready", service |-> "order-service"])

RootResponse == Jsonify(200, [service |-> "Order Service", version |-> "1.0.0"])

(* `return generate_latest(), 200, {...}`, line 72 *)
MetricsResponse(counter, hist) ==
    [code |-> 200, body |-> generate_latest(counter, hist)]

Stored(ords, next_id, resp) ==
    [orders |-> ords, next_order_id |-> next_id, response |-> resp]

(* the view the request is routed to, as a function of the store and the   *)
(* aggregates: the store afterwards and the response                       *)
ViewResult(r, ts) ==
    CASE r.rule = "GET /health" ->
            Stored(orders, next_order_id, HealthResponse(ts))
      [] r.rule = "GET /ready" ->
            Stored(orders, next_order_id, ReadyResponse)
      [] r.rule = "GET /metrics" ->
            Stored(orders, next_order_id,
                   MetricsResponse(REQUEST_COUNT, REQUEST_LATENCY))
      [] r.rule = "GET /" ->
            Stored(orders, next_order_id, RootResponse)
      [] r.rule = "GET /orders" ->
            LET result == GetOrdersResult(orders, r.args)
            IN  Stored(result.orders, next_order_id, result.response)
      [] r.rule = "GET /orders/<int:order_id>" ->
            LET result == GetOrderResult(orders, r.order_id)
            IN  Stored(result.orders, next_order_id, result.response)
      [] r.rule = "POST /orders" ->
            CreateResult(orders, next_order_id, r.json, ts)
      [] r.rule = "PATCH /orders/<int:order_id>/status" ->
            LET result == UpdateStatusResult(orders, r.order_id, r.json)
            IN  Stored(result.orders, next_order_id, result.response)

ObservedTimestamps == { "2024-02-01T08:00:00.000001" }

(* one request from arrival to response: before_request (line 44), the     *)
(* view, after_request (lines 48-60); d is the time the clock advances     *)
(* between the two readings                                                *)
Serve(r, ts, d) ==
    LET start  == now
        result == ViewResult(r, ts)
        end    == now + d
        labels == <<Method(r), Path(r)>>
    IN  /\ Len(log) < MaxRequests
        /\ end <= MaxClock
        /\ result.response.code = 201 => Len(orders) < Len(SeedOrders) + MaxCreates
        /\ request' = r
        /\ orders' = result.orders
        /\ next_order_id' = result.next_order_id
        /\ REQUEST_LATENCY' = Observe(REQUEST_LATENCY, labels, Latency(start, end))
        /\ REQUEST_COUNT' =
              Inc(REQUEST_COUNT, <<Method(r), Path(r), result.response.code>>)
        /\ log' = Append(log, LogRecord(r, result.response))
        /\ response' = AfterRequestReturn(result.response)
        /\ now' = end
        /\ UNCHANGED <<threadVars, start_time>>

Durations == 0..MaxClock

ServeAny(reqs) ==
    \E r \in reqs, ts \in ObservedTimestamps, d \in Durations : Serve(r, ts, d)

ServeHealth == ServeAny({HealthRequest})

ServeReady == ServeAny({ReadyRequest})

ServeMetrics == ServeAny({MetricsRequest})

ServeRoot == ServeAny({RootRequest})

ServeGetOrders ==
    ServeAny({GetOrdersRequest(<< >>), GetOrdersRequest([status |-> SHIPPED])})

ServeGetOrder == ServeAny({GetOrderRequest(2), GetOrderRequest(9999)})

ServeCreateOrder ==
    ServeAny({CreateOrderRequest(JsonObject([product_id |-> 7])),
              CreateOrderRequest(JsonObject(<< >>))})

ServeUpdateOrderStatus ==
    ServeAny({UpdateStatusRequest(2, JsonObject([status |-> cancelled])),
              UpdateStatusRequest(9999, JsonObject([status |-> shipped]))})

ObservedNext ==
    \/ ServeHealth
    \/ ServeReady
    \/ ServeMetrics
    \/ ServeRoot
    \/ ServeGetOrders
    \/ ServeGetOrder
    \/ ServeCreateOrder
    \/ ServeUpdateOrderStatus

SpecObserved == Init /\ [][ObservedNext]_vars

-----------------------------------------------------------------------------
(* The hooks under the threaded server.  `request` is Flask's context-local *)
(* proxy: in thread t it stands for the request t is serving, so the        *)
(* attribute start_time is kept per thread.  The clock advances between the *)
(* steps of the threads.                                                    *)

(* an attribute kept on one object shared by all threads *)
SetStartTimeShared(started, t, v) == [u \in DOMAIN started |-> v]

(* request.start_time = datetime.now(), line 44 *)
SetStartTime(started, t, v) == [started EXCEPT ![t] = v]

ObservedThreadedRequests ==
    { CreateOrderRequest(JsonObject([product_id |-> 7])),
      UpdateStatusRequest(2, JsonObject([status |-> cancelled])),
      GetOrderRequest(2),
      GetOrdersRequest([status |-> SHIPPED]) }

InFlight == Cardinality({ t \in Threads : pc[t] # "idle" })

(* a request arrives at the clock reading `now`, before_request runs and   *)
(* the request is routed to its view; `arrival` records the reading with   *)
(* the request                                                             *)
ObservedDispatch(t) ==
    /\ pc[t] = "idle"
    /\ Len(log) + InFlight < MaxRequests
    /\ \E r \in ObservedThreadedRequests :
          /\ r.rule = "POST /orders" => CreatesAdmitted < MaxCreates
          /\ Goto(t, ViewEntry(r.rule), [request |-> r @@ [arrival |-> now]])
    /\ start_time' = SetStartTime(start_time, t, now)
    /\ UNCHANGED <<storeVars, REQUEST_COUNT, REQUEST_LATENCY, log, now>>

(* after_request in thread t, lines 48-58, on the response the view        *)
(* returned; the request object ends with the request                      *)
after_request(t) ==
    LET req == frame[t].request
    IN  /\ REQUEST_LATENCY' =
              IF start_time[t] # NoStartTime
              THEN Observe(REQUEST_LATENCY, <<Method(req), Path(req)>>,
                           Latency(start_time[t], now))
              ELSE REQUEST_LATENCY
        /\ REQUEST_COUNT' =
              Inc(REQUEST_COUNT, <<Method(req), Path(req), response'.code>>)
        /\ log' = Append(log, LogRecord(req, response'))
        /\ start_time' = [start_time EXCEPT ![t] = NoStartTime]
        /\ UNCHANGED now

(* a step of a view in thread t, followed by after_request when the step   *)
(* returns the response                                                    *)
Observed(t, step) ==
    /\ step
    /\ IF pc'[t] = "idle" THEN after_request(t) ELSE UNCHANGED obsVars

(* the clock advances *)
Tick ==
    /\ now < MaxClock
    /\ now' = now + 1
    /\ UNCHANGED <<storeVars, request, response, threadVars,
                   REQUEST_COUNT, REQUEST_LATENCY, log, start_time>>

ThreadedObservedNext ==
    \/ Tick
    \/ \E t \in Threads :
          \/ ObservedDispatch(t)
          \/ Observed(t, GetOrdersStart(t))
          \/ Observed(t, GetOrdersIter(t))
          \/ Observed(t, GetOrdersLen(t))
          \/ Observed(t, GetOrdersReturn(t))
          \/ Observed(t, GetOrderFind(t))
          \/ Observed(t, GetOrderReturn(t))
          \/ Observed(t, CreateOrderBuild(t))
          \/ Observed(t, CreateOrderAppend(t))
          \/ Observed(t, CreateOrderLoad(t))
          \/ Observed(t, CreateOrderStore(t))
          \/ Observed(t, CreateOrderReturn(t))
          \/ Observed(t, UpdateStatusFind(t))
          \/ Observed(t, UpdateStatusStore(t))
          \/ Observed(t, UpdateStatusReturn(t))

SpecThreadedObserved == Init /\ [][ThreadedObservedNext]_vars

-----------------------------------------------------------------------------
(* Properties *)

IsCreated == request.rule = "POST /orders" /\ response.code = 201

IsUpdate(req) == req.rule = "PATCH /orders/<int:order_id>/status"

HasStatus(req) == req.json.json = "object" /\ "status" \in DOMAIN req.json.members

InStore(ords, id) == \E k \in DOMAIN ords : ords[k].id = id

Created == Len(orders) - Len(SeedOrders)

(* C1: one request at a time, the N-th successful create returns the id    *)
(* FirstOrderId + N - 1 and stores its order under it; the ids in the       *)
(* store are pairwise different and the counter is FirstOrderId + N.        *)
C1_SequentialIds ==
    /\ next_order_id = FirstOrderId + Created
    /\ \A j \in 1..Created : orders[Len(SeedOrders) + j].id = FirstOrderId + j - 1
    /\ \A i, j \in DOMAIN orders : i # j => orders[i].id # orders[j].id
    /\ IsCreated => /\ Created >= 1
                    /\ response.body.id = FirstOrderId + Created - 1
                    /\ response.body = orders[Len(orders)]

C1_Witness ==
    /\ IsCreated
    /\ Created = 2
    /\ orders[2].status = cancelled

(* C2: with create requests served by concurrent threads, no two orders in *)
(* the store have the same id.                                             *)
C2_UniqueIdsThreaded ==
    \A i, j \in DOMAIN orders : i # j => orders[i].id # orders[j].id

(* C3: the order returned and stored by a successful create has status     *)
(* pending, whatever status the payload carries.                           *)
C3_CreatedPending ==
    IsCreated => /\ response.body.status = pending
                 /\ orders[Len(orders)].status = pending
                 /\ orders[Len(orders)].id = response.body.id

C3_Witness ==
    /\ IsCreated
    /\ "status" \in DOMAIN request.json.members
    /\ request.json.members["status"] = shipped

(* C4: update-status of an order in the store to a member of the           *)
(* enumeration succeeds from every old status and stores that status.      *)
C4_AnyTransitionAccepted ==
    [][( /\ IsUpdate(request')
         /\ HasStatus(request')
         /\ request'.json.members["status"] \in StatusValues
         /\ InStore(orders, request'.order_id) )
       => LET k == FindOrder(orders, request'.order_id)
          IN  /\ orders[k].status \in StatusValues
              /\ response'.code = 200
              /\ response'.body.id = request'.order_id
              /\ response'.body.status = request'.json.members["status"]
              /\ orders'[k].status = request'.json.members["status"]]_vars

C4_Witness ==
    /\ request = UpdateStatusRequest(FirstOrderId, JsonObject([status |-> pending]))
    /\ response.code = 200
    /\ orders[FindOrder(orders, FirstOrderId)].status = pending
    /\ orders[2].status = delivered

(* C5: update-status of an order in the store with a status that is not    *)
(* one of the five strings is answered 400 and changes nothing.            *)
C5_InvalidStatusRejected ==
    [][( /\ IsUpdate(request')
         /\ HasStatus(request')
         /\ request'.json.members["status"] \notin StatusValues
         /\ InStore(orders, request'.order_id) )
       => /\ response'.code = 400
          /\ orders' = orders
          /\ next_order_id' = next_order_id]_vars

C5_Witness ==
    /\ request = UpdateStatusRequest(2, JsonObject([status |-> Shipped]))
    /\ response.code = 400
    /\ orders[2].status = shipped

(* C6: update-status of an id that is not in the store is answered 404 and *)
(* changes nothing, whatever the payload.                                  *)
C6_UnknownIdNotFound ==
    [][( /\ IsUpdate(request')
         /\ ~InStore(orders, request'.order_id) )
       => /\ response'.code = 404
          /\ orders' = orders
          /\ next_order_id' = next_order_id]_vars

C6_Witness ==
    /\ request = UpdateStatusRequest(FirstOrderId, JsonNull)
    /\ response.code = 404

(* C7: get answers 404 exactly for the ids not in the store, which are the *)
(* ids outside 1..next_order_id-1; otherwise it returns the stored order,  *)
(* and a stored status changes only by a successful update-status of that  *)
(* order, to the status of that request.                                   *)
C7_GetReturnsStoredOrder ==
    [][/\ \A id \in RequestIds :
            request' = GetOrderRequest(id) =>
               /\ response'.code = 404 <=> ~InStore(orders', id)
               /\ response'.code = 404 <=> id \notin 1..(next_order_id' - 1)
               /\ response'.code # 404 =>
                     /\ response'.code = 200
                     /\ response'.body.id = id
                     /\ \A k \in DOMAIN orders' :
                           orders'[k].id = id => response'.body = orders'[k]
       /\ \A k \in DOMAIN orders :
            orders'[k].status # orders[k].status =>
               /\ IsUpdate(request')
               /\ request'.order_id = orders[k].id
               /\ response'.code = 200
               /\ orders'[k].status = request'.json.members["status"]]_vars

C7_Witness ==
    /\ request = GetOrderRequest(FirstOrderId)
    /\ response.code = 200
    /\ response.body.status = delivered

(* equality of two strings up to the case of their letters *)
SameLetter(a, b) ==
    \/ a = b
    \/ \E k \in DOMAIN UpperChars :
          {a, b} = {UpperChars[k], LowerChars[k]}

EqualsIgnoreCase(a, b) ==
    /\ Len(a) = Len(b)
    /\ \A k \in 1..Len(a) : SameLetter(a[k], b[k])

Matching(f) == SelectSeq(orders, LAMBDA o : EqualsIgnoreCase(o.status, f))

(* C8: list with a filter, the empty string included, returns the orders   *)
(* whose status equals the filter up to case, in insertion order; without  *)
(* a filter it returns all orders; count is the number of orders returned. *)
C8_ListFilter ==
    request.rule = "GET /orders" =>
       /\ response.code = 200
       /\ response.body.count = Len(response.body.orders)
       /\ response.body.orders =
             IF "status" \in DOMAIN request.args
             THEN Matching(request.args["status"])
             ELSE orders

(* C9: under every interleaving, every status in the store is one of the   *)
(* five strings.                                                           *)
C9_StatusInEnumeration ==
    \A k \in DOMAIN orders : orders[k].status \in StatusValues

C9_Witness ==
    /\ request = UpdateStatusRequest(FirstOrderId, JsonObject([status |-> flying]))
    /\ response.code = 400
    /\ \E t \in Threads : pc[t] = "update_return"
    /\ Created = 2

SameButStatus(o, p) ==
    /\ o.id = p.id
    /\ o.product_id = p.product_id
    /\ o.product_name = p.product_name
    /\ o.quantity = p.quantity
    /\ o.total = p.total
    /\ o.created_at = p.created_at

(* C10: no step removes or moves an order or changes a field other than    *)
(* status; a successful update-status changes only the status of the order *)
(* it names.                                                               *)
C10_OnlyStatusChanges ==
    [][/\ Len(orders') >= Len(orders)
       /\ \A k \in DOMAIN orders : SameButStatus(orders'[k], orders[k])
       /\ (IsUpdate(request') /\ response'.code = 200) =>
             /\ next_order_id' = next_order_id
             /\ Len(orders') = Len(orders)
             /\ \A k \in DOMAIN orders :
                   orders[k].id # request'.order_id => orders'[k] = orders[k]]_vars

C10_Witness ==
    /\ IsUpdate(request)
    /\ response.code = 200
    /\ Created = 2
    /\ orders[2].status = processing
    /\ orders[Len(SeedOrders) + 1].status = delivered

IsCreate(req) == req.rule = "POST /orders"

LacksProductId(data) ==
    \/ data.json = "null"
    \/ "product_id" \notin DOMAIN data.members

(* C11: a create without a body, with an empty body or without product_id  *)
(* is answered 400 'product_id is required', appends nothing and leaves    *)
(* next_order_id as it was, so the next successful create gets that id.    *)
C11_RejectedCreateKeepsId ==
    [][/\ (IsCreate(request') /\ LacksProductId(request'.json)) =>
             /\ response' = ProductIdRequired
             /\ orders' = orders
             /\ next_order_id' = next_order_id
       /\ ( /\ IsCreate(request) /\ response.code = 400
            /\ IsCreate(request') /\ response'.code = 201 ) =>
             response'.body.id = next_order_id]_vars

C11_Witness ==
    /\ request = CreateOrderRequest(JsonObject([product_name |-> "Mug"]))
    /\ response = ProductIdRequired
    /\ Created = 1
    /\ next_order_id = FirstOrderId + 1

(* C12: update-status of an order in the store with a payload that has no  *)
(* status field (an object without the key, an empty object, a null body)  *)
(* is answered 400 'status is required' and changes nothing; no answer is  *)
(* of a kind other than validation error and not found.                    *)
C12_MissingStatusRejected ==
    [][/\ ( /\ IsUpdate(request')
            /\ ~HasStatus(request')
            /\ InStore(orders, request'.order_id) ) =>
             /\ response' = StatusRequired
             /\ orders' = orders
             /\ next_order_id' = next_order_id
       /\ response'.code \in {200, 201, 400, 404}]_vars

(* C16: a successful create returns the order with the id next_order_id    *)
(* had, the product_id supplied, and for product_name, quantity and total  *)
(* the value supplied or else 'Unknown', 1 and 0.                          *)
C16_CreatedFields ==
    [][(IsCreate(request') /\ ~LacksProductId(request'.json)) =>
          LET m == request'.json.members
              o == response'.body
          IN  /\ response'.code = 201
              /\ o.id = next_order_id
              /\ o.product_id = m["product_id"]
              /\ o.product_name =
                    IF "product_name" \in DOMAIN m THEN m["product_name"] ELSE "Unknown"
              /\ o.quantity = IF "quantity" \in DOMAIN m THEN m["quantity"] ELSE 1
              /\ o.total = IF "total" \in DOMAIN m THEN m["total"] ELSE 0
              /\ orders' = Append(orders, o)]_vars

C16_Witness ==
    /\ IsCreated
    /\ Created = 2
    /\ response.body.product_name = "Mug"
    /\ response.body.quantity = 2
    /\ response.body.total = 1500
    /\ orders[Len(SeedOrders) + 1].product_name = "Unknown"
    /\ orders[Len(SeedOrders) + 1].quantity = 1
    /\ orders[Len(SeedOrders) + 1].total = 0

(* C17: update-status checks existence, then the presence of status, then  *)
(* membership: an id not in the store gives 404 whatever the payload, and  *)
(* for an id in the store a payload without status gives 'status is        *)
(* required'.                                                              *)
C17_CheckOrder ==
    [][IsUpdate(request') =>
          /\ ~InStore(orders, request'.order_id) => response' = NotFoundResponse
          /\ (InStore(orders, request'.order_id) /\ ~HasStatus(request')) =>
                response' = StatusRequired]_vars

AllIdle == \A t \in Threads : pc[t] = "idle"

(* C18: with creates served by concurrent threads, no step lowers          *)
(* next_order_id, and when all creates have completed the counter has      *)
(* advanced by the number of orders added.                                 *)
C18_NoLostIncrement ==
    [][/\ next_order_id' >= next_order_id
       /\ AllIdle' => next_order_id' = FirstOrderId + Created']_vars

(* C19: the response of a successful update-status carries the status that *)
(* request wrote, also when another update of the same order runs          *)
(* concurrently.                                                           *)
C19_UpdateResponseStatus ==
    (IsUpdate(request) /\ response.code = 200) =>
        response.body.status = request.json.members["status"]

-----------------------------------------------------------------------------
(* The instrumentation pipeline, one request at a time (SpecObserved) *)

LabelsOf(req, resp) == <<Method(req), Path(req), resp.code>>

(* the number of log records with the given method, path and status *)
Logged(records, labels) ==
    Cardinality({ i \in 1..Len(records) :
                    <<records[i].method, records[i].path, records[i].status>> = labels })

(* the count a metrics response reports for the labels; a child that was   *)
(* never used is not rendered                                              *)
SnapshotCount(resp, labels) ==
    IF \E sample \in resp.body :
           sample[1] = "http_requests_total" /\ sample[2] = labels
    THEN (CHOOSE sample \in resp.body :
              sample[1] = "http_requests_total" /\ sample[2] = labels)[3]
    ELSE 0

(* C13: every request handled, whatever the view and whether it answers    *)
(* 2xx, 400 or 404, causes exactly one latency observation under (method,  *)
(* path), exactly one increment of the request counter under (method,      *)
(* path, status of the response returned) and exactly one log record, and  *)
(* the response returned is the one the view produced, unmodified.         *)
C13_OneObservationPerRequest ==
    [][LET counted == LabelsOf(request', response')
           timed   == <<Method(request'), Path(request')>>
       IN  /\ \E ts \in ObservedTimestamps :
                 response' = ViewResult(request', ts).response
           /\ log' = Append(log, [method |-> Method(request'),
                                  path   |-> Path(request'),
                                  status |-> response'.code])
           /\ DOMAIN REQUEST_COUNT' = DOMAIN REQUEST_COUNT \cup {counted}
           /\ \A l \in DOMAIN REQUEST_COUNT' :
                 REQUEST_COUNT'[l] =
                    CounterValue(REQUEST_COUNT, l) + (IF l = counted THEN 1 ELSE 0)
           /\ DOMAIN REQUEST_LATENCY' = DOMAIN REQUEST_LATENCY \cup {timed}
           /\ \A l \in DOMAIN REQUEST_LATENCY' :
                 REQUEST_LATENCY'[l].count =
                    HistogramValue(REQUEST_LATENCY, l).count
                       + (IF l = timed THEN 1 ELSE 0)]_vars

(* three requests answered 201, 400 and 404, each logged and counted once *)
C13_Witness ==
    /\ Len(log) = 3
    /\ { log[i].status : i \in 1..3 } = {201, 400, 404}
    /\ \A i \in 1..3 :
          REQUEST_COUNT[<<log[i].method, log[i].path, log[i].status>>] = 1

(* C14 as stated: every request raises the counter of its own labels by    *)
(* exactly one (so K requests raise it by K), and two consecutive metrics  *)
(* snapshots report the same count for every label set.                    *)
C14_ConsecutiveSnapshotsIdentical ==
    [][/\ \A l \in DOMAIN REQUEST_COUNT' :
             REQUEST_COUNT'[l] =
                CounterValue(REQUEST_COUNT, l)
                   + (IF l = LabelsOf(request', response') THEN 1 ELSE 0)
       /\ (request = MetricsRequest /\ request' = MetricsRequest) =>
             \A l \in DOMAIN REQUEST_COUNT' :
                SnapshotCount(response', l) = SnapshotCount(response, l)]_vars

MetricsLabels == <<"GET", <<"/metrics">>, 200>>

(* C14 amended: a metrics snapshot reports for every label set the number  *)
(* of requests completed before it with those labels (so K requests        *)
(* between two snapshots raise the reported count by K); serving it        *)
(* lowers or resets no counter and raises only the snapshot request's own  *)
(* (GET, /metrics, 200); two consecutive snapshots therefore agree on      *)
(* every label set but that one, where the second reports one more.        *)
C14_SnapshotCounts ==
    [][request' = MetricsRequest =>
          /\ \A l \in DOMAIN REQUEST_COUNT' :
                /\ SnapshotCount(response', l) = Logged(log, l)
                /\ REQUEST_COUNT'[l] =
                      CounterValue(REQUEST_COUNT, l)
                         + (IF l = MetricsLabels THEN 1 ELSE 0)
          /\ request = MetricsRequest =>
                \A l \in DOMAIN REQUEST_COUNT' :
                   SnapshotCount(response', l) =
                      SnapshotCount(response, l)
                         + (IF l = MetricsLabels THEN 1 ELSE 0)]_vars

(* a snapshot that follows a snapshot and two requests with equal labels *)
C14_Witness ==
    /\ request = MetricsRequest
    /\ \/ /\ SnapshotCount(response, MetricsLabels) = 1
          /\ SnapshotCount(response, <<"GET", <<"/health">>, 200>>) = 1
       \/ SnapshotCount(response, <<"GET", <<"/orders/", 9999>>, 404>>) = 2

ReadOnlyRules ==
    { "GET /orders", "GET /orders/<int:order_id>", "GET /health", "GET /ready",
      "GET /", "GET /metrics" }

(* C20: list (with or without filter), get, health, readiness, root and    *)
(* the metrics snapshot leave the store as it was, whether they answer 200 *)
(* or 404: the sequence of orders, every field of every order and          *)
(* next_order_id.                                                          *)
C20_ReadOnlyKeepsStore ==
    [][request'.rule \in ReadOnlyRules =>
          /\ orders' = orders
          /\ next_order_id' = next_order_id]_vars

(* a filtered list served after an order was created and one was updated *)
C20_Witness ==
    /\ Len(log) = 3
    /\ log[1].status = 201
    /\ log[2].method = "PATCH" /\ log[2].status = 200
    /\ request = GetOrdersRequest([status |-> SHIPPED])
    /\ Created = 1

-----------------------------------------------------------------------------
(* The hooks under the threaded server (SpecThreadedObserved) *)

Completes(t) == pc[t] # "idle" /\ pc'[t] = "idle"

(* C15: under any interleaving of in-flight requests, the latency recorded *)
(* when a request completes is the time since that request's own arrival;  *)
(* while a request is in flight its start time is the one captured at its  *)
(* arrival, never one written by another request.                          *)
C15_OwnStartTime ==
    [][/\ \A t \in Threads :
             pc'[t] # "idle" => start_time'[t] = frame'[t].request.arrival
       /\ \A t \in Threads :
             Completes(t) =>
                LET req    == frame[t].request
                    labels == <<Method(req), Path(req)>>
                IN  /\ REQUEST_LATENCY'[labels].count =
                          HistogramValue(REQUEST_LATENCY, labels).count + 1
                    /\ REQUEST_LATENCY'[labels].sum =
                          HistogramValue(REQUEST_LATENCY, labels).sum
                             + (now - req.arrival)]_vars

(* two requests in flight that arrived at different times, after a request *)
(* that took time was recorded                                             *)
C15_Witness ==
    /\ \A t \in Threads : pc[t] # "idle"
    /\ frame[1].request.arrival # frame[2].request.arrival
    /\ \E l \in DOMAIN REQUEST_LATENCY : REQUEST_LATENCY[l].sum > 0

====
